---- MODULE Spec2Model ----
(***************************************************************************)
(* A model of chip8_core (src/chip8_core/src/lib.rs): the Emu aggregate,   *)
(* its public operations new, reset, push, pop, tick and tick_timers, and  *)
(* the private fetch and execute that tick calls.                          *)
(*                                                                         *)
(* A Rust panic unwinds out of the operation and leaves the fields as they *)
(* were at the panicking statement; the driver may catch it and go on      *)
(* using the machine, so an operation that panicked is followed by any     *)
(* other operation.  `result` records the latest call, the panic it ended  *)
(* in (if any), the instruction word tick fetched and the value pop        *)
(* returned.                                                               *)
(*                                                                         *)
(* Integer overflow is build dependent: with overflow checks (the debug    *)
(* profile) `self.sp -= 1` at sp = 0 panics; without them (the release     *)
(* profile) it wraps to 65535.  `checked` is the build's choice.           *)
(*                                                                         *)
(* The two large arrays are held sparsely: `ram` maps the addresses whose  *)
(* byte is not 0 to that byte (ram_at reads any address of 0..RAM_SIZE-1), *)
(* and `screen` is the set of the indices of the cells that are on.        *)
(***************************************************************************)
EXTENDS Integers, Sequences, FiniteSets

\* ---------------------------------------------------------------- constants
SCREEN_WIDTH == 64
SCREEN_HEIGHT == 32
RAM_SIZE == 4096
NUM_REGS == 16
STACK_SIZE == 16
NUM_KEYS == 16
\* 0x200
START_ADDR == 512
FONTSET_SIZE == 80
\* the number of values of a u16 (pc, sp, i_reg, stack slots, instruction words)
U16 == 2 ^ 16
\* the number of values of a u8 (dt, st, v_reg, ram bytes)
U8 == 2 ^ 8

FONTSET ==
    << 240, 144, 144, 144, 240,
        32,  96,  32,  32, 112,
       240,  16, 240, 128, 240,
       240,  16, 240,  16, 240,
       144, 144, 240,  16,  16,
       240, 128, 240,  16, 240,
       240, 128, 240, 144, 240,
       240,  16,  32,  64,  64,
       240, 144, 240, 144, 240,
       240, 144, 240,  16, 240,
       240, 144, 240, 144, 144,
       224, 144, 224, 144, 224,
       240, 128, 128, 128, 240,
       224, 144, 144, 144, 224,
       240, 128, 240, 128, 240,
       240, 128, 240, 128, 128 >>

\* ------------------------------------------------------------------- bounds
\* tick is offered while pc is below START_ADDR + 2 * MaxTicks (TickCapped)
MaxTicks == 3
\* pop is offered on a wrapped stack pointer down to U16 - MaxWrapped
MaxWrapped == 2
\* the driver pushes up to this depth in the specification with a loader
MaxDepth == 2
\* the longest loaded program, in instruction words
MaxProgLen == 2
\* the timer values a step is interleaved with: 0 .. MaxTimer and 255
MaxTimer == 2

\* the values the driver pushes (0x202)
PushVals == {START_ADDR + 2}

\* the instruction words the loader places:
\* 0x0000, 0x00E0, 0x00E1, 0x00EE, 0x1234, 0x2210, 0xD005, 0xF00A, 0xFFFF
Words == {0, 224, 225, 238, 4660, 8720, 53253, 61450, 65535}

\* ------------------------------------------------------------ bit operators
RECURSIVE BitAnd(_, _)
BitAnd(a, b) ==
    IF a = 0 \/ b = 0 THEN 0
    ELSE (IF a % 2 = 1 /\ b % 2 = 1 THEN 1 ELSE 0) + 2 * BitAnd(a \div 2, b \div 2)

RECURSIVE BitOr(_, _)
BitOr(a, b) ==
    IF a = 0 THEN b
    ELSE IF b = 0 THEN a
    ELSE (IF a % 2 = 1 \/ b % 2 = 1 THEN 1 ELSE 0) + 2 * BitOr(a \div 2, b \div 2)

\* a << n and a >> n on a u16
Shl(a, n) == (a * 2 ^ n) % U16
Shr(a, n) == a \div 2 ^ n

\* -------------------------------------------------------------------- state
VARIABLES pc, ram, screen, v_reg, i_reg, sp, stack, keys, dt, st, checked, result

emu == <<pc, ram, screen, v_reg, i_reg, sp, stack, keys, dt, st>>
vars == <<pc, ram, screen, v_reg, i_reg, sp, stack, keys, dt, st, checked, result>>

\* the outcome of a call: its name, its panic ("none" when it returned), the
\* word tick fetched (-1 when none) and the value pop returned (-1 when none)
Outcome(call, panic, op, ret) ==
    [call |-> call, panic |-> panic, op |-> op, ret |-> ret]

\* the byte at address a of 0 .. RAM_SIZE - 1
ram_at(a) == IF a \in DOMAIN ram THEN ram[a] ELSE 0

\* the array [u8; RAM_SIZE] given as a function on 0 .. RAM_SIZE - 1, held
\* sparsely
RamOf(bytes) ==
    [a \in {x \in 0 .. RAM_SIZE - 1 : bytes[x] # 0} |-> bytes[a]]

\* ram with FONTSET copied to START_ADDR.. instead of to 0..
FontRam_at_start ==
    RamOf([a \in 0 .. RAM_SIZE - 1 |->
              IF a >= START_ADDR /\ a < START_ADDR + FONTSET_SIZE
              THEN FONTSET[a - START_ADDR + 1]
              ELSE 0])

\* ram right after new() and reset(): zero, with FONTSET copied to 0..79
FontRam ==
    RamOf([a \in 0 .. RAM_SIZE - 1 |->
              IF a < FONTSET_SIZE THEN FONTSET[a + 1] ELSE 0])

\* the cells of the display, SCREEN_WIDTH * SCREEN_HEIGHT of them
Cells == 0 .. SCREEN_WIDTH * SCREEN_HEIGHT - 1

\* [false; SCREEN_WIDTH * SCREEN_HEIGHT]: no cell is on
BlankScreen == {}

Init ==
    /\ pc = START_ADDR
    /\ ram = FontRam
    /\ screen = BlankScreen
    /\ v_reg = [i \in 0 .. NUM_REGS - 1 |-> 0]
    /\ i_reg = 0
    /\ sp = 0
    /\ stack = [i \in 0 .. STACK_SIZE - 1 |-> 0]
    /\ keys = [i \in 0 .. NUM_KEYS - 1 |-> FALSE]
    /\ dt = 0
    /\ st = 0
    /\ checked \in BOOLEAN
    /\ result = Outcome("new", "none", -1, -1)

\* an Emu as new() leaves it, but for the two timers, which hold any values
\* of timer_vals: the machines tick_timers is applied to
EmuWithTimers(timer_vals) ==
    /\ pc = START_ADDR
    /\ ram = FontRam
    /\ screen = BlankScreen
    /\ v_reg = [i \in 0 .. NUM_REGS - 1 |-> 0]
    /\ i_reg = 0
    /\ sp = 0
    /\ stack = [i \in 0 .. STACK_SIZE - 1 |-> 0]
    /\ keys = [i \in 0 .. NUM_KEYS - 1 |-> FALSE]
    /\ dt \in timer_vals
    /\ st \in timer_vals
    /\ checked \in BOOLEAN
    /\ result = Outcome("given", "none", -1, -1)

\* every pair of u8 timer values
InitTimers == EmuWithTimers(0 .. U8 - 1)

\* the pairs of the timer values 0 .. MaxTimer and 255
InitFewTimers == EmuWithTimers((0 .. MaxTimer) \cup {U8 - 1})

\* --------------------------------------------------------------- operations
\* reset without self.stack = [0; STACK_SIZE]
Reset_keeps_stack ==
    /\ pc' = START_ADDR
    /\ ram' = FontRam
    /\ screen' = BlankScreen
    /\ v_reg' = [i \in 0 .. NUM_REGS - 1 |-> 0]
    /\ i_reg' = 0
    /\ sp' = 0
    /\ keys' = [i \in 0 .. NUM_KEYS - 1 |-> FALSE]
    /\ dt' = 0
    /\ st' = 0
    /\ result' = Outcome("reset", "none", -1, -1)
    /\ UNCHANGED <<stack, checked>>

\* reset without the copy of FONTSET into ram
Reset_no_font ==
    /\ pc' = START_ADDR
    /\ ram' = RamOf([a \in 0 .. RAM_SIZE - 1 |-> 0])
    /\ screen' = BlankScreen
    /\ v_reg' = [i \in 0 .. NUM_REGS - 1 |-> 0]
    /\ i_reg' = 0
    /\ sp' = 0
    /\ stack' = [i \in 0 .. STACK_SIZE - 1 |-> 0]
    /\ keys' = [i \in 0 .. NUM_KEYS - 1 |-> FALSE]
    /\ dt' = 0
    /\ st' = 0
    /\ result' = Outcome("reset", "none", -1, -1)
    /\ UNCHANGED checked

Reset ==
    /\ pc' = START_ADDR
    /\ ram' = FontRam
    /\ screen' = BlankScreen
    /\ v_reg' = [i \in 0 .. NUM_REGS - 1 |-> 0]
    /\ i_reg' = 0
    /\ sp' = 0
    /\ stack' = [i \in 0 .. STACK_SIZE - 1 |-> 0]
    /\ keys' = [i \in 0 .. NUM_KEYS - 1 |-> FALSE]
    /\ dt' = 0
    /\ st' = 0
    /\ result' = Outcome("reset", "none", -1, -1)
    /\ UNCHANGED checked

\* push with sp incremented before the write instead of after it
push_sp_first(val) ==
    IF sp >= STACK_SIZE
    THEN [panic |-> "index_out_of_bounds", sp |-> sp + 1, stack |-> stack]
    ELSE [panic |-> "none", sp |-> sp + 1, stack |-> [stack EXCEPT ![sp] = val]]

\* push: the indexing stack[sp] is bounds checked and comes first
push(val) ==
    IF sp >= STACK_SIZE
    THEN [panic |-> "index_out_of_bounds", sp |-> sp, stack |-> stack]
    ELSE [panic |-> "none", sp |-> sp + 1, stack |-> [stack EXCEPT ![sp] = val]]

Push(val) ==
    LET p == push(val) IN
    /\ sp' = p.sp
    /\ stack' = p.stack
    /\ result' = Outcome("push", p.panic, -1, -1)
    /\ UNCHANGED <<pc, ram, screen, v_reg, i_reg, keys, dt, st, checked>>

PushShallow(val) == sp < MaxDepth /\ Push(val)

\* pop: sp -= 1 comes first (it panics at 0 with overflow checks and wraps
\* without them), then the bounds-checked read of stack[sp]
pop ==
    IF sp = 0 /\ checked
    THEN [panic |-> "subtract_overflow", sp |-> sp, ret |-> -1]
    ELSE LET nsp == (sp - 1) % U16 IN
         IF nsp >= STACK_SIZE
         THEN [panic |-> "index_out_of_bounds", sp |-> nsp, ret |-> -1]
         ELSE [panic |-> "none", sp |-> nsp, ret |-> stack[nsp]]

Pop ==
    /\ sp <= STACK_SIZE \/ sp > U16 - MaxWrapped
    /\ LET p == pop IN
       /\ sp' = p.sp
       /\ result' = Outcome("pop", p.panic, -1, p.ret)
    /\ UNCHANGED <<pc, ram, screen, v_reg, i_reg, stack, keys, dt, st, checked>>

\* fetch with the two bytes combined in the wrong order
fetch_little_endian ==
    IF pc >= RAM_SIZE \/ pc + 1 >= RAM_SIZE
    THEN [panic |-> "index_out_of_bounds", op |-> -1, pc |-> pc]
    ELSE [panic |-> "none",
          op |-> BitOr(Shl(ram_at(pc + 1), 8), ram_at(pc)),
          pc |-> pc + 2]

\* fetch with the reads wrapped into memory instead of bounds checked
fetch_wrapping ==
    [panic |-> "none",
     op |-> BitOr(Shl(ram_at(pc % RAM_SIZE), 8), ram_at((pc + 1) % RAM_SIZE)),
     pc |-> pc + 2]

\* fetch with pc advanced before the reads instead of after them
fetch_advance_first ==
    IF pc >= RAM_SIZE \/ pc + 1 >= RAM_SIZE
    THEN [panic |-> "index_out_of_bounds", op |-> -1, pc |-> pc + 2]
    ELSE [panic |-> "none",
          op |-> BitOr(Shl(ram_at(pc), 8), ram_at(pc + 1)),
          pc |-> pc + 2]

\* fetch: both reads are bounds checked; pc moves only after them
fetch ==
    IF pc >= RAM_SIZE \/ pc + 1 >= RAM_SIZE
    THEN [panic |-> "index_out_of_bounds", op |-> -1, pc |-> pc]
    ELSE [panic |-> "none",
          op |-> BitOr(Shl(ram_at(pc), 8), ram_at(pc + 1)),
          pc |-> pc + 2]

\* the arms of execute's match, in source order
NumArms == 5

\* the match with its first arm swallowing every word
Matches_first_arm_any(arm, d1, d2, d3, d4) ==
    CASE arm = 1 -> TRUE
      [] arm = 2 -> TRUE
      [] arm = 3 -> d1 = 0 /\ d2 = 0 /\ d3 = 14 /\ d4 = 0
      [] arm = 4 -> d1 = 0 /\ d2 = 0 /\ d3 = 14 /\ d4 = 14
      [] arm = 5 -> d1 = 1

Matches(arm, d1, d2, d3, d4) ==
    CASE arm = 1 -> d1 = 0 /\ d2 = 0 /\ d3 = 0 /\ d4 = 0
      [] arm = 2 -> TRUE
      [] arm = 3 -> d1 = 0 /\ d2 = 0 /\ d3 = 14 /\ d4 = 0
      [] arm = 4 -> d1 = 0 /\ d2 = 0 /\ d3 = 14 /\ d4 = 14
      [] arm = 5 -> d1 = 1

\* a match takes the first arm, in source order, whose pattern matches
FirstMatch(d1, d2, d3, d4) ==
    CHOOSE a \in 1 .. NumArms :
        /\ Matches(a, d1, d2, d3, d4)
        /\ \A b \in 1 .. a - 1 : ~Matches(b, d1, d2, d3, d4)

\* execute with the all-zero arm given a screen assignment, of `true`
execute_nop_fills_screen(op, pc_) ==
    LET digit1 == Shr(BitAnd(op, 61440), 12)
        digit2 == Shr(BitAnd(op, 3840), 8)
        digit3 == Shr(BitAnd(op, 240), 4)
        digit4 == BitAnd(op, 15)
        arm == FirstMatch(digit1, digit2, digit3, digit4)
        same == [panic |-> "none", pc |-> pc_, screen |-> screen, sp |-> sp]
    IN  CASE arm = 1 -> [same EXCEPT !.screen = Cells]
          [] arm = 2 -> [same EXCEPT !.panic = "unimplemented"]
          [] arm = 3 -> [same EXCEPT !.screen = BlankScreen]
          [] arm = 4 -> LET p == pop IN
                        IF p.panic = "none"
                        THEN [same EXCEPT !.sp = p.sp, !.pc = p.ret]
                        ELSE [same EXCEPT !.sp = p.sp, !.panic = p.panic]
          [] arm = 5 -> [same EXCEPT !.pc = BitAnd(op, 4095)]

\* execute(op), entered with pc at pc_ (the value fetch left)
execute(op, pc_) ==
    LET digit1 == Shr(BitAnd(op, 61440), 12)
        digit2 == Shr(BitAnd(op, 3840), 8)
        digit3 == Shr(BitAnd(op, 240), 4)
        digit4 == BitAnd(op, 15)
        arm == FirstMatch(digit1, digit2, digit3, digit4)
        same == [panic |-> "none", pc |-> pc_, screen |-> screen, sp |-> sp]
    IN  CASE arm = 1 -> same
          [] arm = 2 -> [same EXCEPT !.panic = "unimplemented"]
          [] arm = 3 -> [same EXCEPT !.screen = BlankScreen]
          [] arm = 4 -> LET p == pop IN
                        IF p.panic = "none"
                        THEN [same EXCEPT !.sp = p.sp, !.pc = p.ret]
                        ELSE [same EXCEPT !.sp = p.sp, !.panic = p.panic]
          [] arm = 5 -> [same EXCEPT !.pc = BitAnd(op, 4095)]

\* tick with the timers decremented inside it, once per instruction
Tick_ticks_timers ==
    LET f == fetch IN
    IF f.panic # "none"
    THEN /\ pc' = f.pc
         /\ result' = Outcome("tick", f.panic, -1, -1)
         /\ UNCHANGED <<ram, screen, v_reg, i_reg, sp, stack, keys, dt, st, checked>>
    ELSE LET e == execute(f.op, f.pc) IN
         /\ pc' = e.pc
         /\ screen' = e.screen
         /\ sp' = e.sp
         /\ dt' = (IF dt > 0 THEN dt - 1 ELSE dt)
         /\ st' = (IF st > 0 THEN st - 1 ELSE st)
         /\ result' = Outcome("tick", e.panic, f.op, -1)
         /\ UNCHANGED <<ram, v_reg, i_reg, stack, keys, checked>>

Tick ==
    LET f == fetch IN
    IF f.panic # "none"
    THEN /\ pc' = f.pc
         /\ result' = Outcome("tick", f.panic, -1, -1)
         /\ UNCHANGED <<ram, screen, v_reg, i_reg, sp, stack, keys, dt, st, checked>>
    ELSE LET e == execute(f.op, f.pc) IN
         /\ pc' = e.pc
         /\ screen' = e.screen
         /\ sp' = e.sp
         /\ result' = Outcome("tick", e.panic, f.op, -1)
         /\ UNCHANGED <<ram, v_reg, i_reg, stack, keys, dt, st, checked>>

TickCapped == pc < START_ADDR + 2 * MaxTicks /\ Tick

\* tick_timers with the decrements unguarded and wrapping
TickTimers_wrapping ==
    /\ dt' = (dt - 1) % U8
    /\ st' = (st - 1) % U8
    /\ result' = Outcome("tick_timers", "none", -1, -1)
    /\ UNCHANGED <<pc, ram, screen, v_reg, i_reg, sp, stack, keys, checked>>

TickTimers ==
    /\ dt' = (IF dt > 0 THEN dt - 1 ELSE dt)
    /\ st' = (IF st > 0 THEN st - 1 ELSE st)
    /\ result' = Outcome("tick_timers", "none", -1, -1)
    /\ UNCHANGED <<pc, ram, screen, v_reg, i_reg, sp, stack, keys, checked>>

\* ------------------------------------------------------------- the loader
\* The external loader (spec section 6, load_program): copies bytes into
\* memory from START_ADDR on, before execution starts (after new or reset).
RECURSIVE ProgramBytes(_)
ProgramBytes(ws) ==
    IF ws = <<>> THEN <<>>
    ELSE <<Head(ws) \div 256, Head(ws) % 256>> \o ProgramBytes(Tail(ws))

Programs ==
    {ProgramBytes(ws) : ws \in UNION {[1 .. n -> Words] : n \in 1 .. MaxProgLen}}

LoadProgram(bytes) ==
    /\ result.call \in {"new", "reset"}
    /\ ram' = RamOf([a \in 0 .. RAM_SIZE - 1 |->
                        IF a >= START_ADDR /\ a < START_ADDR + Len(bytes)
                        THEN bytes[a - START_ADDR + 1]
                        ELSE ram_at(a)])
    /\ result' = Outcome("load_program", "none", -1, -1)
    /\ UNCHANGED <<pc, screen, v_reg, i_reg, sp, stack, keys, dt, st, checked>>

\* ----------------------------------------------------------- specifications
\* the public operations of the crate, from new()
Next ==
    \/ Reset
    \/ \E val \in PushVals : Push(val)
    \/ Pop
    \/ TickCapped
    \/ TickTimers

Spec == Init /\ [][Next]_vars

\* a machine that is only run: tick, tick_timers and reset, from new()
NextRun ==
    \/ Reset
    \/ Tick
    \/ TickTimers

SpecRun == Init /\ [][NextRun]_vars

\* the public operations on a machine whose memory the loader has filled
NextLoaded ==
    \/ Reset
    \/ \E bytes \in Programs : LoadProgram(bytes)
    \/ \E val \in PushVals : PushShallow(val)
    \/ Pop
    \/ TickCapped
    \/ TickTimers

SpecLoaded == Init /\ [][NextLoaded]_vars

\* tick_timers applied to a machine holding any pair of timer values
NextTimers == TickTimers

SpecTimers == InitTimers /\ [][NextTimers]_vars

\* steps and timer ticks interleaved on a machine whose timers run
NextStepTimers ==
    \/ TickCapped
    \/ TickTimers

SpecStepTimers == InitFewTimers /\ [][NextStepTimers]_vars

\* every public operation, with tick uncapped: a machine run to the end of
\* memory while the driver also uses the stack
NextRunStack ==
    \/ Reset
    \/ \E val \in PushVals : PushShallow(val)
    \/ Pop
    \/ Tick
    \/ TickTimers

SpecRunStack == Init /\ [][NextRunStack]_vars

\* ------------------------------------------------------------------ claims
\* the big-endian instruction word at address a
WordAt(a) == ram_at(a) * 256 + ram_at(a + 1)

\* this step is a tick whose fetch is inside memory
TickFetches == result'.call = "tick" /\ pc + 1 < RAM_SIZE

\* The instruction patterns of the spec's instruction table (section 4.3), in
\* their CHIP-8 encodings: 00E0, 00EE, 1NNN, 2NNN, 3XNN, 4XNN, 5XY0, 6XNN,
\* 7XNN, 8XY0..8XY7, 8XYE, 9XY0, ANNN, BNNN, CXNN, DXYN, EX9E, EXA1, FX07,
\* FX0A, FX15, FX18, FX1E, FX29, FX33, FX55, FX65.
Defined(w) ==
    LET n1 == w \div 4096
        n4 == w % 16
        nn == w % 256
    IN  \/ w = 224
        \/ w = 238
        \/ n1 \in {1, 2, 3, 4, 6, 7, 10, 11, 12, 13}
        \/ n1 \in {5, 9} /\ n4 = 0
        \/ n1 = 8 /\ n4 \in {0, 1, 2, 3, 4, 5, 6, 7, 14}
        \/ n1 = 14 /\ nn \in {158, 161}
        \/ n1 = 15 /\ nn \in {7, 10, 21, 24, 30, 41, 51, 85, 101}

\* C1: dispatch selects the most specific matching pattern: a step that
\* fetches 0x00E0 clears the screen, one that fetches 0x00EE (stack not
\* empty) returns, one that fetches 1NNN jumps, none of them panics, and the
\* catch-all unimplemented-opcode outcome is produced only for a word that
\* matches none of these patterns.
C1_DispatchMostSpecific ==
    [][TickFetches =>
        LET w == WordAt(pc) IN
        /\ (w = 224 => result'.panic = "none" /\ screen' = BlankScreen)
        /\ (w = 238 /\ sp \in 1 .. STACK_SIZE =>
                result'.panic = "none" /\ pc' = stack[sp - 1])
        /\ (w \div 4096 = 1 => result'.panic = "none" /\ pc' = w % 4096)
        /\ (result'.panic = "unimplemented" =>
                ~(w = 224 \/ w = 238 \/ w \div 4096 = 1))]_vars

\* C2: for every pc with pc + 1 inside memory, fetch returns the big-endian
\* word ram[pc] * 256 + ram[pc + 1] and leaves pc exactly 2 greater; the tick
\* that runs it hands that word to execute and fetch changes no other state.
C2_Fetch ==
    [][TickFetches =>
        /\ fetch.panic = "none"
        /\ fetch.op = WordAt(pc)
        /\ fetch.pc = pc + 2
        /\ result'.op = WordAt(pc)
        /\ UNCHANGED <<ram, v_reg, i_reg, stack, keys, dt, st>>]_vars

\* C2 witness: 0x12, 0x34 at 0x200 were fetched as 0x1234 and pc is 0x202
C2_FetchWitness ==
    /\ result.call = "tick"
    /\ result.op = 4660
    /\ ram_at(START_ADDR) = 18 /\ ram_at(START_ADDR + 1) = 52
    /\ pc = START_ADDR + 2

C4_Jump ==
    [][TickFetches /\ WordAt(pc) \div 4096 = 1 =>
        /\ result'.panic = "none"
        /\ pc' = WordAt(pc) % 4096
        /\ UNCHANGED <<stack, sp, v_reg, i_reg, screen, keys, dt, st>>]_vars

\* C5: a step that fetches 0x00E0 completes without a panic and leaves every
\* display cell off.
C5_ClearScreen ==
    [][TickFetches /\ WordAt(pc) = 224 =>
        /\ result'.panic = "none"
        /\ \A i \in Cells : i \notin screen']_vars

\* C6: a step that fetches 2NNN with the stack not full pushes the advanced
\* pc, sets pc = NNN and raises sp by 1; a step that fetches 0x00EE pops the
\* latest pushed address into pc and lowers sp by 1, leaving the slots below
\* as they were, so k calls followed by k returns restore pc in LIFO order
\* and sp to its value before the calls.
C6_CallReturn ==
    [][TickFetches =>
        LET w == WordAt(pc) IN
        /\ (w \div 4096 = 2 /\ sp < STACK_SIZE =>
                /\ result'.panic = "none"
                /\ stack' = [stack EXCEPT ![sp] = pc + 2]
                /\ pc' = w % 4096
                /\ sp' = sp + 1)
        /\ (w = 238 /\ sp \in 1 .. STACK_SIZE =>
                /\ result'.panic = "none"
                /\ pc' = stack[sp - 1]
                /\ sp' = sp - 1
                /\ stack' = stack)]_vars

\* C7: a step that fetches 0x00EE while sp > 0 sets pc to stack[sp - 1] and
\* lowers sp by exactly 1, leaving registers, display, keys and timers
\* unchanged.
C7_Return ==
    [][TickFetches /\ WordAt(pc) = 238 /\ sp \in 1 .. STACK_SIZE =>
        /\ pc' = stack[sp - 1]
        /\ sp' = sp - 1
        /\ UNCHANGED <<v_reg, i_reg, screen, keys, dt, st>>]_vars

\* C8: in every reachable state, also after an operation that panicked,
\* 0 <= sp <= 16, and a push refused at sp = 16 wrote nothing outside the
\* 16 slots.
C8_StackBound ==
    /\ sp >= 0
    /\ sp <= STACK_SIZE
    /\ DOMAIN stack = 0 .. STACK_SIZE - 1

\* C9: a pop, or a step that fetches 0x00EE, attempted at sp = 0 panics,
\* returns no value, does not set pc from a stack slot and leaves sp at 0.
C9_UnderflowFatalNoWrap ==
    [][/\ (sp = 0 /\ result'.call = "pop" =>
              /\ result'.panic # "none"
              /\ result'.ret = -1
              /\ pc' = pc
              /\ sp' = 0)
       /\ (sp = 0 /\ TickFetches /\ WordAt(pc) = 238 =>
              /\ result'.panic # "none"
              /\ pc' = pc + 2
              /\ sp' = 0)]_vars

\* C10 (as stated): in every state reachable by step, tick_timers and reset,
\* pc is a valid memory address, 0 <= pc < 4096.
C10_PcInBounds == pc >= 0 /\ pc < RAM_SIZE

\* C10 (amended): in every state reachable by step, tick_timers and reset,
\* 0 <= pc <= 4096; pc = 4096 is the state right after the step that fetched
\* the last word of memory at 0xFFE, and there the next fetch panics.
C10_PcAtMostRamSize ==
    /\ pc >= 0
    /\ pc <= RAM_SIZE
    /\ (pc = RAM_SIZE => fetch.panic = "index_out_of_bounds")

\* C10 witness: the step at 0xFFE returned and left pc = 4096
C10_PcPastEndWitness ==
    /\ pc = RAM_SIZE
    /\ result.call = "tick"
    /\ result.panic = "none"
    /\ result.op = 0

\* C11: a step invoked with pc + 1 not a valid memory address panics on the
\* bounds check: it fetches no word, executes nothing, reads no wrapped-around
\* address and leaves every field, pc included, as it was.
C11_FetchOutOfBoundsFatal ==
    [][result'.call = "tick" /\ pc + 1 >= RAM_SIZE =>
        /\ result'.panic = "index_out_of_bounds"
        /\ result'.op = -1
        /\ UNCHANGED emu]_vars

\* C11 witness: a step was invoked at pc = 4096 and panicked on the bounds check
C11_FetchOutOfBoundsWitness ==
    /\ result.call = "tick"
    /\ result.panic = "index_out_of_bounds"
    /\ pc = RAM_SIZE

\* C12: the state after reset equals the state new() produces in every
\* field: pc = 0x200, memory zero except FONTSET at 0..79, display off,
\* registers, address register, stack, stack pointer, keys and both timers
\* zero. The state after reset is this one state whatever came before, so a
\* second reset leaves it as the first did.
C12_ResetRestoresConstruction ==
    result.call = "reset" =>
        /\ pc = START_ADDR
        /\ \A a \in 0 .. RAM_SIZE - 1 :
              ram_at(a) = (IF a < FONTSET_SIZE THEN FONTSET[a + 1] ELSE 0)
        /\ \A c \in Cells : c \notin screen
        /\ \A i \in 0 .. NUM_REGS - 1 : v_reg[i] = 0
        /\ i_reg = 0
        /\ sp = 0
        /\ \A i \in 0 .. STACK_SIZE - 1 : stack[i] = 0
        /\ \A i \in 0 .. NUM_KEYS - 1 : keys[i] = FALSE
        /\ dt = 0
        /\ st = 0

\* C12 witness: reset has run and the machine is at the program start with
\* an empty stack
C12_ResetWitness ==
    /\ result.call = "reset"
    /\ pc = START_ADDR
    /\ sp = 0
    /\ stack[0] = 0

\* C13: in every reachable state the memory bytes 0..79 equal the 80 bytes
\* of FONTSET.
C13_FontInvariant ==
    /\ Len(FONTSET) = FONTSET_SIZE
    /\ \A a \in 0 .. FONTSET_SIZE - 1 : ram_at(a) = FONTSET[a + 1]

\* C13 witness: after a reset the last font byte (0x80, glyph F) is at 79
C13_FontWitness ==
    /\ result.call = "reset"
    /\ ram_at(FONTSET_SIZE - 1) = 128
    /\ ram_at(0) = 240

\* C14: for every pair of timer values in 0..255, one tick_timers call
\* leaves each timer at max(value - 1, 0): a timer at 0 stays 0 and never
\* wraps to 255, each timer drops by at most 1, and pc, memory, registers,
\* stack, display and keys are unchanged.
C14_TickTimers ==
    [][result'.call = "tick_timers" =>
        /\ dt' = (IF dt - 1 > 0 THEN dt - 1 ELSE 0)
        /\ st' = (IF st - 1 > 0 THEN st - 1 ELSE 0)
        /\ (dt = 0 => dt' = 0) /\ (st = 0 => st' = 0)
        /\ dt - dt' \in {0, 1} /\ st - st' \in {0, 1}
        /\ UNCHANGED <<pc, ram, v_reg, i_reg, sp, stack, screen, keys>>]_vars

\* C14 witness: tick_timers has run on a delay timer at 0 or 1 and a sound
\* timer at 255, leaving 0 and 254
C14_TickTimersWitness ==
    /\ result.call = "tick_timers"
    /\ dt = 0
    /\ st = U8 - 2

\* C15: a step that fetches the wait-for-key word FX0A returns without a
\* panic; while no key is pressed it does not advance past the instruction
\* (pc is left at it, so the next step meets it again) and changes no
\* register; when some key is pressed it stores a pressed key's index in V[X]
\* and goes on to the following instruction.
C15_WaitForKey ==
    [][TickFetches /\ WordAt(pc) \div 4096 = 15 /\ WordAt(pc) % 256 = 10 =>
        LET x == (WordAt(pc) \div 256) % 16 IN
        /\ result'.panic = "none"
        /\ IF \A k \in 0 .. NUM_KEYS - 1 : ~keys[k]
           THEN pc' = pc /\ v_reg' = v_reg
           ELSE /\ pc' = pc + 2
                /\ \E k \in 0 .. NUM_KEYS - 1 :
                      keys[k] /\ v_reg' = [v_reg EXCEPT ![x] = k]]_vars

\* the display cells the N-row sprite at address addr covers when drawn at
\* (x, y): bit 7 - col of row byte `row` is the cell at column (x + col) mod
\* width of line (y + row) mod height (spec section 4.3, draw sprite)
SpriteCells(x, y, n, addr) ==
    {((y + row) % SCREEN_HEIGHT) * SCREEN_WIDTH + ((x + col) % SCREEN_WIDTH) :
        <<row, col>> \in
            {rc \in (0 .. n - 1) \X (0 .. 7) :
                (ram_at(addr + rc[1]) \div 2 ^ (7 - rc[2])) % 2 = 1}}

\* C16: a step that fetches the draw word DXYN returns without a panic,
\* XORs the sprite's cells onto the display and sets the flag register VF to
\* 1 if a cell went from on to off, else to 0; so drawing the same non-empty
\* sprite twice at the same place on a clear region restores every cell, with
\* VF = 0 after the first draw and 1 after the second.
C16_DrawCollision ==
    [][TickFetches /\ WordAt(pc) \div 4096 = 13 /\ WordAt(pc) % 16 > 0 =>
        LET w == WordAt(pc)
            cells == SpriteCells(v_reg[(w \div 256) % 16], v_reg[(w \div 16) % 16],
                                 w % 16, i_reg)
        IN  /\ result'.panic = "none"
            /\ screen' = (screen \ cells) \cup (cells \ screen)
            /\ v_reg'[NUM_REGS - 1] = (IF cells \cap screen # {} THEN 1 ELSE 0)]_vars

\* C17: the display changes only in a step that fetches the clear-screen
\* word 0x00E0 or a draw word DXYN: every other step, also one that panics,
\* and every tick_timers, push and pop leaves all display cells unchanged.
C17_DisplayFrame ==
    [][/\ result'.call \in {"tick", "tick_timers", "push", "pop"}
       /\ ~(TickFetches /\ (WordAt(pc) = 224 \/ WordAt(pc) \div 4096 = 13))
       => screen' = screen]_vars

\* C17 witness: a step that fetched the jump word 0x1234 panicked and the
\* display is as it was (off)
C17_DisplayFrameWitness ==
    /\ result.call = "tick"
    /\ result.op = 4660
    /\ result.panic = "unimplemented"
    /\ \A c \in Cells : c \notin screen

\* C18: step writes neither timer, tick_timers writes nothing but the
\* timers, and what a step fetches and does is the same before and after a
\* timer tick (it reads no timer); so a step followed by tick_timers and
\* tick_timers followed by that step leave the machine in the same state, and
\* so does any interleaving of m steps and n timer ticks.
C18_StepTimersIndependent ==
    [][/\ (result'.call = "tick" => dt' = dt /\ st' = st)
       /\ (result'.call = "tick_timers" =>
              /\ UNCHANGED <<pc, ram, screen, v_reg, i_reg, sp, stack, keys>>
              /\ fetch' = fetch
              /\ (fetch.panic = "none" =>
                     execute(fetch.op, fetch.pc)' = execute(fetch.op, fetch.pc)))]_vars

\* C18 witness: a step has run after a timer tick on running timers (the
\* sound timer went from 255 to 254, the delay timer from 2 to 1)
C18_StepTimersWitness ==
    /\ result.call = "tick"
    /\ result.panic = "none"
    /\ pc = START_ADDR + 2
    /\ dt = 1
    /\ st = U8 - 2

\* C19: no operation of the crate puts a program in memory: every byte at
\* 80..4095 is 0 in every reachable state (ram holds a non-zero byte at no
\* address from 80 on); every tick whose fetch succeeds
\* fetches 0x0000 and only advances pc by 2; pc is START_ADDR + 2k with k
\* successful ticks since new() or reset; the fetch fails, out of bounds, at
\* pc = 0x1000, that is after exactly 1792 successful ticks, and no tick ends
\* in the unimplemented-opcode panic.
C19_NoProgramInMemory ==
    [][/\ \A a \in DOMAIN ram : a < FONTSET_SIZE
       /\ ram_at(START_ADDR) = 0 /\ ram_at(RAM_SIZE - 1) = 0
       /\ result.panic # "unimplemented"
       /\ pc >= START_ADDR /\ pc <= START_ADDR + 2 * 1792
       /\ (pc - START_ADDR) % 2 = 0
       /\ (result'.call = "tick" =>
              IF pc = START_ADDR + 2 * 1792
              THEN /\ pc = RAM_SIZE
                   /\ result'.panic = "index_out_of_bounds"
                   /\ UNCHANGED emu
              ELSE /\ result'.panic = "none"
                   /\ result'.op = 0
                   /\ pc' = pc + 2
                   /\ UNCHANGED <<ram, screen, v_reg, i_reg, sp, stack, keys, dt, st>>)]_vars

\* C19 witness: a machine with a pushed value was ticked to pc = 0x1000 and
\* the next tick failed on the out-of-bounds fetch
C19_RunEndsOutOfBoundsWitness ==
    /\ pc = START_ADDR + 2 * 1792
    /\ sp = 1
    /\ result.call = "tick"
    /\ result.panic = "index_out_of_bounds"

\* C20: push called with sp = 16 fails before any write: sp is still 16 and
\* all 16 slots hold their previous values; push(val) called with sp < 16
\* writes val to stack[sp], raises sp by 1 and changes no other slot.
C20_PushFrame ==
    [][result'.call = "push" /\ sp <= STACK_SIZE =>
        IF sp = STACK_SIZE
        THEN /\ result'.panic = "index_out_of_bounds"
             /\ sp' = STACK_SIZE
             /\ stack' = stack
        ELSE /\ result'.panic = "none"
             /\ stack'[sp] \in PushVals
             /\ sp' = sp + 1
             /\ \A i \in 0 .. STACK_SIZE - 1 : i # sp => stack'[i] = stack[i]]_vars

\* C20 witness: a push on the full stack failed and left sp = 16 with the 16
\* pushed values in place
C20_PushFullWitness ==
    /\ result.call = "push"
    /\ result.panic = "index_out_of_bounds"
    /\ sp = STACK_SIZE
    /\ \A i \in 0 .. STACK_SIZE - 1 : stack[i] \in PushVals

====
